---- MODULE Spec2Model ----
(***************************************************************************)
(* State-machine model of DataProcessor (src/src/data_processor.py) and    *)
(* PDFGenerator (src/src/pdf_generator.py), driven the way src/app.py      *)
(* drives them.                                                            *)
(*                                                                         *)
(* Text is a sequence of one-character strings, so that str(), lower(),    *)
(* strip(), startswith(), sorted() and the file-name filter are computed   *)
(* character by character.  A cell is a record [k, s, n]: k is "nan" (a    *)
(* blank cell / float NaN), "str", "int" or "float" (a whole float, n.0).  *)
(* A DataFrame is [none, columns, rows]: the column labels (cells) and the *)
(* rows, each a sequence of cells in column order.  pandas semantics are   *)
(* those of pandas 1.x / 2.x.                                              *)
(***************************************************************************)
EXTENDS Integers, Sequences, FiniteSets, TLC

VARIABLES df, carregado, op, arg, out

vars == <<df, carregado, op, arg, out>>

----------------------------------------------------------------------------
(* Characters and text                                                     *)

\* The characters in use, in code-point order (Python compares str by code point).
CodePoints == <<" ", "-", ".", "/", "0", "1", "2", "3", "4", "5", "6", "7", "8", "9", ":", "A", "B", "C", "D", "E", "F", "G", "H", "I", "J", "K", "L", "M", "N", "O", "P", "Q", "R", "S", "T", "U", "V", "W", "X", "Y", "Z", "_", "a", "b", "c", "d", "e", "f", "g", "h", "i", "j", "k", "l", "m", "n", "o", "p", "q", "r", "s", "t", "u", "v", "w", "x", "y", "z", "ã", "ç">>

UpperCase == <<"A", "B", "C", "D", "E", "F", "G", "H", "I", "J", "K", "L", "M", "N", "O", "P", "Q", "R", "S", "T", "U", "V", "W", "X", "Y", "Z">>

LowerCase == <<"a", "b", "c", "d", "e", "f", "g", "h", "i", "j", "k", "l", "m", "n", "o", "p", "q", "r", "s", "t", "u", "v", "w", "x", "y", "z">>

DigitChars == <<"0", "1", "2", "3", "4", "5", "6", "7", "8", "9">>

Range(f) == {f[i] : i \in DOMAIN f}

\* ord(c)
OrdTable ==
    [c \in Range(CodePoints) |-> CHOOSE i \in DOMAIN CodePoints : CodePoints[i] = c]

ord(c) == OrdTable[c]

\* str.lower(), one character
LowerTable ==
    [c \in Range(CodePoints) |->
        IF c \in Range(UpperCase)
        THEN LowerCase[CHOOSE i \in DOMAIN UpperCase : UpperCase[i] = c]
        ELSE c]

LowerChar(c) == LowerTable[c]

\* str.lower()
lower(s) == [i \in DOMAIN s |-> LowerChar(s[i])]

isspace(c) == c = " "

RECURSIVE lstrip(_)
lstrip(s) == IF s # <<>> /\ isspace(Head(s)) THEN lstrip(Tail(s)) ELSE s

RECURSIVE rstrip(_)
rstrip(s) ==
    IF s # <<>> /\ isspace(s[Len(s)]) THEN rstrip(SubSeq(s, 1, Len(s) - 1)) ELSE s

\* str.strip()
strip(s) == rstrip(lstrip(s))

\* str.startswith(p)
startswith(s, p) == Len(s) >= Len(p) /\ SubSeq(s, 1, Len(p)) = p

\* str.isalnum(), one character: a letter (accented ones included) or a digit
AlnumChars ==
    Range(UpperCase) \cup Range(LowerCase) \cup Range(DigitChars) \cup {"ã", "ç"}

isalnum(c) == c \in AlnumChars

\* Python's < on str: lexicographic by code point, a proper prefix is smaller
RECURSIVE StrLess(_, _)
StrLess(a, b) ==
    IF b = <<>> THEN FALSE
    ELSE IF a = <<>> THEN TRUE
    ELSE IF Head(a) = Head(b) THEN StrLess(Tail(a), Tail(b))
    ELSE ord(Head(a)) < ord(Head(b))

\* str(n) of a non-negative int
RECURSIVE Digits(_)
Digits(n) ==
    IF n < 10 THEN <<DigitChars[n + 1]>>
    ELSE Digits(n \div 10) \o <<DigitChars[(n % 10) + 1]>>

----------------------------------------------------------------------------
(* Cells                                                                   *)

NaN == [k |-> "nan", s |-> <<>>, n |-> 0]

Txt(s) == [k |-> "str", s |-> s, n |-> 0]

Num(n) == [k |-> "int", s |-> <<>>, n |-> n]

Flt(n) == [k |-> "float", s |-> <<>>, n |-> n]

\* pd.notna(val)
notna(c) == c.k # "nan"

\* str(val)
str(c) ==
    CASE c.k = "str" -> c.s
      [] c.k = "int" -> Digits(c.n)
      [] c.k = "float" -> Digits(c.n) \o <<".", "0">>
      [] OTHER -> <<"n", "a", "n">>

----------------------------------------------------------------------------
(* DataProcessor.__init__                                                  *)

Item == <<"I", "t", "e", "m">>

Chassi == <<"C", "h", "a", "s", "s", "i">>

Modelo == <<"M", "o", "d", "e", "l", "o">>

Cliente == <<"C", "l", "i", "e", "n", "t", "e">>

Cidade == <<"C", "i", "d", "a", "d", "e">>

StatusFuncionamento == <<"S", "t", "a", "t", "u", "s", " ", "F", "u", "n", "c", "i", "o", "n", "a", "m", "e", "n", "t", "o">>

Manutencao == <<"M", "a", "n", "u", "t", "e", "n", "ç", "ã", "o">>

Quantidade == <<"Q", "u", "a", "n", "t", "i", "d", "a", "d", "e">>

colunas_esperadas ==
    <<Txt(Item), Txt(Chassi), Txt(Modelo), Txt(Cliente), Txt(Cidade),
      Txt(StatusFuncionamento), Txt(Manutencao), Txt(Quantidade)>>

\* self.df = None
None == [none |-> TRUE, columns |-> <<>>, rows |-> <<>>]

DataFrame(columns, rows) == [none |-> FALSE, columns |-> columns, rows |-> rows]

\* No header row found yet (header_row = None)
NoRow == -1

----------------------------------------------------------------------------
(* pandas                                                                  *)

\* Position of label c in a column index (0 when absent)
ColPos(columns, c) ==
    IF \E j \in DOMAIN columns : columns[j] = c
    THEN CHOOSE j \in DOMAIN columns :
            columns[j] = c /\ \A i \in 1..(j - 1) : columns[i] # c
    ELSE 0

\* The values of column j, in row order
Column(rows, j) == [i \in DOMAIN rows |-> rows[i][j]]

\* Column dtype inference of the reader: a column of whole numbers with a
\* blank in it is float64, so its ints read back as floats
InferCell(col, c) ==
    IF /\ c.k = "int"
       /\ \A i \in DOMAIN col : col[i].k # "str"
       /\ \E i \in DOMAIN col : col[i].k = "nan"
    THEN Flt(c.n)
    ELSE c

InferRows(rows) ==
    [i \in DOMAIN rows |->
        [j \in DOMAIN rows[i] |-> InferCell(Column(rows, j), rows[i][j])]]

\* Header cell j as a column label: a blank cell is named "Unnamed: j", an
\* earlier equal label mangles a later one to name.k
HeaderLabel(hdr, j) ==
    LET raw == IF hdr[j].k = "nan"
               THEN Txt(<<"U", "n", "n", "a", "m", "e", "d", ":", " ">> \o Digits(j - 1))
               ELSE hdr[j]
        dup == Cardinality({i \in 1..(j - 1) : hdr[i] = hdr[j] /\ hdr[j].k # "nan"})
    IN  IF dup = 0 THEN raw ELSE Txt(str(raw) \o <<".">> \o Digits(dup))

\* pd.read_excel(arquivo, header=header): header = NoRow stands for
\* header=None (integer labels, every row is data)
read_excel(arquivo, header) ==
    LET all == arquivo.rows
        width == IF all = <<>> THEN 0 ELSE Len(all[1])
    IN  IF header = NoRow
        THEN DataFrame([j \in 1..width |-> Num(j - 1)], InferRows(all))
        ELSE DataFrame([j \in 1..width |-> HeaderLabel(all[header + 1], j)],
                       InferRows(SubSeq(all, header + 2, Len(all))))

\* frame[list of labels]
Project(frame, labels) ==
    DataFrame(labels,
              [i \in DOMAIN frame.rows |->
                  [j \in DOMAIN labels |->
                      frame.rows[i][ColPos(frame.columns, labels[j])]]])

\* frame.loc[:, mask]
KeepColumns(frame, Keep(_)) ==
    LET idx == SelectSeq([j \in DOMAIN frame.columns |-> j],
                         LAMBDA j : Keep(frame.columns[j]))
    IN  DataFrame([j \in DOMAIN idx |-> frame.columns[idx[j]]],
                  [i \in DOMAIN frame.rows |->
                      [j \in DOMAIN idx |-> frame.rows[i][idx[j]]]])

\* frame.dropna(how='all')
dropna(frame) ==
    DataFrame(frame.columns,
              SelectSeq(frame.rows, LAMBDA r : \E j \in DOMAIN r : notna(r[j])))

\* frame[coluna] = frame[coluna].astype(str), for every column but Quantidade
astype_str(frame) ==
    DataFrame(frame.columns,
              [i \in DOMAIN frame.rows |->
                  [j \in DOMAIN frame.columns |->
                      IF frame.columns[j] # Txt(Quantidade)
                      THEN Txt(str(frame.rows[i][j]))
                      ELSE frame.rows[i][j]]])

\* frame['Quantidade'] = range(1, len(frame) + 1): the column is replaced in
\* place, or appended when the frame has none
set_Quantidade(frame) ==
    LET q == ColPos(frame.columns, Txt(Quantidade))
    IN  IF q = 0
        THEN DataFrame(Append(frame.columns, Txt(Quantidade)),
                       [i \in DOMAIN frame.rows |-> Append(frame.rows[i], Num(i))])
        ELSE DataFrame(frame.columns,
                       [i \in DOMAIN frame.rows |->
                           [j \in DOMAIN frame.columns |->
                               IF j = q THEN Num(i) ELSE frame.rows[i][j]]])

\* reindex that adds the labels the frame lacks after the columns it has,
\* leaving those where they are
reindex_sem_reordenar(frame, labels) ==
    LET faltantes == SelectSeq(labels, LAMBDA c : c \notin Range(frame.columns))
    IN  DataFrame(frame.columns \o faltantes,
                  [i \in DOMAIN frame.rows |->
                      frame.rows[i] \o [j \in DOMAIN faltantes |-> NaN]])

\* frame.reindex(columns=labels): a label the frame lacks is a column of NaN
reindex(frame, labels) ==
    DataFrame(labels,
              [i \in DOMAIN frame.rows |->
                  [j \in DOMAIN labels |->
                      IF ColPos(frame.columns, labels[j]) = 0 THEN NaN
                      ELSE frame.rows[i][ColPos(frame.columns, labels[j])]]])

----------------------------------------------------------------------------
(* DataProcessor                                                           *)

\* validar_colunas: every expected column is among the frame's columns
\* whose name does not start with "Unnamed"
validar_colunas(frame) ==
    LET colunas_atuais ==
            SelectSeq(frame.columns,
                      LAMBDA col : ~startswith(col.s, <<"U", "n", "n", "a", "m", "e", "d">>))
        colunas_faltantes ==
            SelectSeq(colunas_esperadas,
                      LAMBDA col : col \notin Range(colunas_atuais))
    IN  colunas_faltantes = <<>>

\* row_values of the header scan: str(val).lower().strip() of the row's
\* non-blank cells
row_values(row) ==
    LET kept == SelectSeq(row, notna)
    IN  [i \in DOMAIN kept |-> strip(lower(str(kept[i])))]

\* The header scan without its break: the last row with 'item' wins
RECURSIVE FindHeader_sem_break(_, _)
FindHeader_sem_break(rows, idx) ==
    IF idx >= Len(rows) THEN NoRow
    ELSE LET depois == FindHeader_sem_break(rows, idx + 1)
         IN  IF depois # NoRow THEN depois
             ELSE IF <<"i", "t", "e", "m">> \in Range(row_values(rows[idx + 1]))
                  THEN idx
                  ELSE NoRow

\* The header scan: the index (from 0) of the first row at or after idx
\* with 'item' in row_values, NoRow when the loop ends without a break
RECURSIVE FindHeader(_, _)
FindHeader(rows, idx) ==
    IF idx >= Len(rows) THEN NoRow
    ELSE IF <<"i", "t", "e", "m">> \in Range(row_values(rows[idx + 1])) THEN idx
    ELSE FindHeader(rows, idx + 1)

\* ~self.df.columns.str.contains('^Unnamed') raises TypeError when a label
\* is not text: .str.contains gives NaN for it, and ~NaN is not defined
UnnamedMaskRaises(frame) == \E j \in DOMAIN frame.columns : frame.columns[j].k # "str"

\* self.df.loc[:, ~self.df.columns.str.contains('^Unnamed')]
DropUnnamed(frame) ==
    KeepColumns(frame,
                LAMBDA col : ~startswith(col.s, <<"U", "n", "n", "a", "m", "e", "d">>))

\* self.df.columns = [str(col).strip() for col in self.df.columns]
NormalizeNames(frame) ==
    DataFrame([j \in DOMAIN frame.columns |-> Txt(strip(str(frame.columns[j])))],
              frame.rows)

\* colunas_presentes, and self.df = self.df[colunas_presentes]
KeepExpected(frame) ==
    LET colunas_presentes ==
            SelectSeq(colunas_esperadas, LAMBDA col : col \in Range(frame.columns))
    IN  Project(frame, colunas_presentes)

\* self.df = self.df.reindex(columns=self.colunas_esperadas)
ReorderColumns(frame) == reindex(frame, colunas_esperadas)

ErroCabecalho == "Não foi possível encontrar a linha de cabeçalho com 'Item'"

ErroProcessar == "Erro ao processar arquivo"

ErroValidacao == "Erro na validação das colunas"

Sucesso == "Arquivo processado com sucesso!"

\* Lines 44-69: the frames self.df is bound to, one after the other
Normalizado(lido) ==
    ReorderColumns(
        set_Quantidade(
            astype_str(
                dropna(
                    KeepExpected(
                        NormalizeNames(
                            DropUnnamed(lido)))))))

\* processar_arquivo: the returned (sucesso, mensagem), whether the call
\* assigned self.df and the frame self.df is bound to when it did, and the
\* header row the scan found.  self.df is assigned at line 44, before the
\* frame is normalised: a call that raises after that line returns failure
\* with self.df already bound to the frame as read.
processar_arquivo(arquivo) ==
    IF ~arquivo.readable
    THEN [sucesso |-> FALSE, mensagem |-> ErroProcessar, atribuido |-> FALSE,
          df |-> None, header_row |-> NoRow]
    ELSE
    LET df_temp == read_excel(arquivo, NoRow)
        header_row == FindHeader(df_temp.rows, 0)
    IN  IF header_row = NoRow
        THEN [sucesso |-> FALSE, mensagem |-> ErroCabecalho, atribuido |-> FALSE,
              df |-> None, header_row |-> NoRow]
        ELSE
        LET lido == read_excel(arquivo, header_row)
        IN  IF UnnamedMaskRaises(lido)
            THEN [sucesso |-> FALSE, mensagem |-> ErroProcessar, atribuido |-> TRUE,
                  df |-> lido, header_row |-> header_row]
            ELSE
            LET novo == Normalizado(lido)
            IN  IF ~validar_colunas(novo)
                THEN [sucesso |-> FALSE, mensagem |-> ErroValidacao,
                      atribuido |-> TRUE, df |-> novo, header_row |-> header_row]
                ELSE [sucesso |-> TRUE, mensagem |-> Sucesso,
                      atribuido |-> TRUE, df |-> novo, header_row |-> header_row]

\* Series.unique(): the distinct values, in order of first appearance
unique(col) ==
    LET idx == SelectSeq([i \in DOMAIN col |-> i],
                         LAMBDA i : \A h \in 1..(i - 1) : col[h] # col[i])
    IN  [i \in DOMAIN idx |-> col[idx[i]]]

\* sorted(): insertion of x after the elements not greater than it (stable)
RECURSIVE Insert(_, _)
Insert(x, sortedSeq) ==
    IF sortedSeq = <<>> THEN <<x>>
    ELSE IF StrLess(x, Head(sortedSeq)) THEN <<x>> \o sortedSeq
    ELSE <<Head(sortedSeq)>> \o Insert(x, Tail(sortedSeq))

RECURSIVE sorted(_)
sorted(xs) ==
    IF xs = <<>> THEN <<>>
    ELSE Insert(xs[Len(xs)], sorted(SubSeq(xs, 1, Len(xs) - 1)))

\* get_valores_unicos
get_valores_unicos(self_df, coluna) ==
    IF ~self_df.none /\ coluna \in Range(self_df.columns)
    THEN LET valores == unique(Column(self_df.rows, ColPos(self_df.columns, coluna)))
             naoVazios == SelectSeq(valores,
                                    LAMBDA val : notna(val) /\ strip(str(val)) # <<>>)
         IN  sorted([i \in DOMAIN naoVazios |-> strip(str(naoVazios[i]))])
    ELSE <<>>

\* The selection computed and not assigned back to df_filtrado
isin_rows_nao_atribuido(frame, coluna, valores_filtro) == frame

\* df_filtrado[df_filtrado[coluna].isin(valores_filtro)]
isin_rows(frame, coluna, valores_filtro) ==
    LET j == ColPos(frame.columns, coluna)
    IN  DataFrame(frame.columns,
                  SelectSeq(frame.rows,
                            LAMBDA r : r[j].k = "str" /\ r[j].s \in valores_filtro))

\* The loop over filtros.items(), from item i on: err is the KeyError of
\* df_filtrado[coluna] for a column the frame lacks
RECURSIVE AplicarFiltros(_, _, _)
AplicarFiltros(frame, filtros, i) ==
    IF i > Len(filtros) THEN [err |-> FALSE, frame |-> frame]
    ELSE IF filtros[i].valor = {} THEN AplicarFiltros(frame, filtros, i + 1)
    ELSE IF filtros[i].coluna \notin Range(frame.columns)
         THEN [err |-> TRUE, frame |-> frame]
    ELSE AplicarFiltros(
            isin_rows(frame, filtros[i].coluna, {str(v) : v \in filtros[i].valor}),
            filtros, i + 1)

\* filtrar_dados: the returned frame, or raised when the call raises.  With
\* self.df = None, self.df.copy() raises AttributeError inside try and again
\* inside the except handler, so the call raises.
filtrar_dados(self_df, filtros) ==
    IF self_df.none
    THEN [raised |-> TRUE, frame |-> None]
    ELSE LET r == AplicarFiltros(self_df, filtros, 1)
         IN  IF r.err
             THEN [raised |-> FALSE, frame |-> self_df]
             ELSE [raised |-> FALSE, frame |-> set_Quantidade(r.frame)]

\* filtrar_dados keeping its result in self.df
df_apos_filtrar_guardado(self_df, filtros) ==
    LET r == filtrar_dados(self_df, filtros)
    IN  IF r.raised THEN self_df ELSE r.frame

\* The table self.df is bound to after filtrar_dados: the call works on
\* self.df.copy() and never assigns self.df
df_apos_filtrar(self_df, filtros) == self_df

----------------------------------------------------------------------------
(* PDFGenerator                                                            *)

output_dir == <<"r", "e", "l", "a", "t", "o", "r", "i", "o", "s">>

\* "".join(c for c in cliente if c.isalnum() or c in (' ', '-', '_')).strip()
nome_arquivo(cliente) ==
    strip(SelectSeq(cliente, LAMBDA c : isalnum(c) \/ c \in {" ", "-", "_"}))

\* os.path.join(self.output_dir, f"{nome_arquivo}.pdf")
filename(cliente) ==
    output_dir \o <<"/">> \o nome_arquivo(cliente) \o <<".", "p", "d", "f">>

\* criar_pdf_por_cliente: the file written and what it holds (the title's
\* customer, the header row, one row of str(val) per row of dados_cliente).
\* A cliente that is not text (NaN, a number) raises TypeError at line 45,
\* before anything is written.
criar_pdf_por_cliente(frame, cliente) ==
    LET j == ColPos(frame.columns, Txt(Cliente))
        dados_cliente == SelectSeq(frame.rows,
                                   LAMBDA r : cliente.k = "str" /\ r[j] = cliente)
    IN  IF cliente.k # "str"
        THEN [raised |-> TRUE, filename |-> <<>>, doc |-> <<>>]
        ELSE [raised |-> FALSE,
              filename |-> filename(cliente.s),
              doc |-> [titulo |-> cliente.s,
                       headers |-> frame.columns,
                       dados |-> [i \in DOMAIN dados_cliente |->
                                    [h \in DOMAIN dados_cliente[i] |->
                                        str(dados_cliente[i][h])]]]]

\* A file written over whatever the path held
WriteFile(docs, path, doc) ==
    [f \in DOMAIN docs \cup {path} |-> IF f = path THEN doc ELSE docs[f]]

\* The loop of gerar_pdfs_todos_clientes from customer i on: arquivos is
\* arquivos_gerados, docs the files written so far by this call
RECURSIVE GerarDesde(_, _, _, _, _)
GerarDesde(frame, clientes, i, arquivos, docs) ==
    IF i > Len(clientes)
    THEN [raised |-> FALSE, arquivos_gerados |-> arquivos, docs |-> docs]
    ELSE LET r == criar_pdf_por_cliente(frame, clientes[i])
         IN  IF r.raised
             THEN [raised |-> TRUE, arquivos_gerados |-> arquivos, docs |-> docs]
             ELSE GerarDesde(frame, clientes, i + 1,
                             Append(arquivos, r.filename),
                             WriteFile(docs, r.filename, r.doc))

\* gerar_pdfs_todos_clientes: df['Cliente'] raises KeyError on a frame with
\* no such column; a customer whose document raises ends the call, the files
\* of the earlier customers staying written
gerar_pdfs_todos_clientes(frame) ==
    IF Txt(Cliente) \notin Range(frame.columns)
    THEN [raised |-> TRUE, arquivos_gerados |-> <<>>, docs |-> <<>>]
    ELSE GerarDesde(frame,
                    unique(Column(frame.rows, ColPos(frame.columns, Txt(Cliente)))),
                    1, <<>>, <<>>)

----------------------------------------------------------------------------
(* Inputs                                                                  *)

\* At most this many rows below the header row of an uploaded sheet
MaxData == 2

\* What one data row holds: under Item, under Cliente, under Cidade, and
\* under every other column
LinhasDeDados ==
    { [item |-> Num(1), cliente |-> Txt(<<"A", "c", "m", "e">>),
       cidade |-> Txt(<<"R", "i", "o">>), outro |-> Txt(<<"o", "k">>)],
      [item |-> Txt(<<"i", "t", "e", "m">>), cliente |-> Txt(<<" ", "A", "c", "m", "e">>),
       cidade |-> NaN, outro |-> Num(7)],
      [item |-> NaN, cliente |-> NaN, cidade |-> NaN, outro |-> NaN] }

LinhaVazia(width) == [j \in 1..width |-> NaN]

\* A note row: "Items" in the first cell, which contains "item" and is not it
LinhaDeNota(width) ==
    [j \in 1..width |-> IF j = 1 THEN Txt(<<"I", "t", "e", "m", "s">>) ELSE NaN]

\* The sheets' tops, each the rows above the header row and the header row:
\* the eight columns; a blank row and a note row, then a header row that is
\* reordered, with a blank cell, an extra column, a padded name and a
\* repeated name; a header row whose only "item" is "ITEM", without Item
\* and Cliente and with a source Quantidade; a header row with a numeric
\* cell.  No two names of a header row are equal once stripped.
Cabecalhos ==
    { [acima |-> <<>>, hdr |-> colunas_esperadas],
      [acima |-> <<LinhaVazia(6), LinhaDeNota(6)>>,
       hdr |-> <<Txt(Cliente), NaN, Txt(<<"E", "x", "t", "r", "a">>),
                 Txt(<<" ", "C", "i", "d", "a", "d", "e", " ">>), Txt(Item),
                 Txt(Cliente)>>],
      [acima |-> <<>>,
       hdr |-> <<Txt(<<"I", "T", "E", "M">>), Txt(Quantidade), Txt(Cidade)>>],
      [acima |-> <<LinhaVazia(3)>>,
       hdr |-> <<Txt(Item), Txt(Cliente), Num(7)>>] }

\* The cells of a data row under header row hdr
LinhaSob(hdr, linha) ==
    [j \in DOMAIN hdr |->
        LET nome == IF hdr[j].k = "str" THEN strip(hdr[j].s) ELSE <<>>
        IN  CASE nome = Item -> linha.item
              [] nome = Cliente -> linha.cliente
              [] nome = Cidade -> linha.cidade
              [] OTHER -> linha.outro]

RECURSIVE SeqsUpTo(_, _)
SeqsUpTo(S, n) ==
    IF n = 0 THEN {<<>>}
    ELSE LET shorter == SeqsUpTo(S, n - 1)
         IN  shorter \cup {Append(q, x) : q \in shorter, x \in S}

\* The uploads: an unreadable file, an empty sheet, a sheet of notes only,
\* and every sheet of a top and up to MaxData data rows
Arquivos ==
    { [readable |-> FALSE, rows |-> <<>>],
      [readable |-> TRUE, rows |-> <<>>],
      [readable |-> TRUE, rows |-> <<LinhaVazia(2), LinhaDeNota(2)>>] }
    \cup
    { [readable |-> TRUE,
       rows |-> c.acima \o <<c.hdr>> \o
                [i \in DOMAIN linhas |-> LinhaSob(c.hdr, linhas[i])]] :
        c \in Cabecalhos, linhas \in SeqsUpTo(LinhasDeDados, MaxData) }

\* The filters app.py builds: one entry per multiselect, in this order
Filtros ==
    { << [coluna |-> Txt(Cliente), valor |-> c],
         [coluna |-> Txt(Cidade), valor |-> d],
         [coluna |-> Txt(StatusFuncionamento), valor |-> s],
         [coluna |-> Txt(Manutencao), valor |-> {}] >> :
        c \in { {}, {Txt(<<"A", "c", "m", "e">>)},
                {Txt(<<"A", "c", "m", "e">>), Txt(<<" ", "A", "c", "m", "e">>)},
                {Txt(<<"B", "e", "t", "a">>)} },
        d \in { {}, {Txt(<<"R", "i", "o">>)} },
        s \in { {}, {Txt(<<"o", "k">>)} } }

\* The fields asked of get_valores_unicos
Campos == {Txt(Cliente), Txt(Cidade), Txt(Quantidade), Txt(<<"F", "o", "o">>)}

----------------------------------------------------------------------------
(* The session                                                             *)

\* processar_arquivo of every upload
Processado == [arquivo \in Arquivos |-> processar_arquivo(arquivo)]

\* carregado: the table held is one a successful processar_arquivo built
Init ==
    /\ df = None
    /\ carregado = FALSE
    /\ op = "init"
    /\ arg = <<>>
    /\ out = <<>>

\* st.session_state.processor.processar_arquivo(arquivo)
Load ==
    \E arquivo \in Arquivos :
        LET r == Processado[arquivo]
        IN  /\ df' = IF r.atribuido THEN r.df ELSE df
            /\ carregado' = (r.sucesso \/ (carregado /\ ~r.atribuido))
            /\ op' = "load"
            /\ arg' = arquivo
            /\ out' = [sucesso |-> r.sucesso, mensagem |-> r.mensagem,
                       header_row |-> r.header_row]

\* df_filtrado = st.session_state.processor.filtrar_dados(filtros)
Filter ==
    \E filtros \in Filtros :
        /\ df' = df_apos_filtrar(df, filtros)
        /\ op' = "filter"
        /\ arg' = filtros
        /\ out' = filtrar_dados(df, filtros)
        /\ UNCHANGED carregado

\* st.session_state.processor.get_valores_unicos(coluna)
DistinctValues ==
    \E coluna \in Campos :
        /\ op' = "unique"
        /\ arg' = coluna
        /\ out' = get_valores_unicos(df, coluna)
        /\ UNCHANGED <<df, carregado>>

\* pdf_gen.gerar_pdfs_todos_clientes(df_filtrado), on the frame the last
\* filtrar_dados returned
RenderAll ==
    /\ op = "filter"
    /\ ~out.raised
    /\ op' = "render"
    /\ arg' = out.frame
    /\ out' = gerar_pdfs_todos_clientes(out.frame)
    /\ UNCHANGED <<df, carregado>>

Next == Load \/ Filter \/ DistinctValues \/ RenderAll

Spec == Init /\ [][Next]_vars

----------------------------------------------------------------------------
(* Properties                                                              *)

\* The rows of a table numbered 1, 2, ... in its Quantidade column
QuantidadeSequencial(t) ==
    LET q == ColPos(t.columns, Txt(<<"Q", "u", "a", "n", "t", "i", "d", "a", "d", "e">>))
    IN  \A i \in DOMAIN t.rows : q # 0 /\ t.rows[i][q] = Num(i)

\* C1: the table a successful Load leaves and every table Filter returns,
\* after any sequence of Loads and Filters, has Quantidade = 1, 2, ..., len
\* in row order.
C1_QuantidadeSequencial ==
    /\ (op = "load" /\ out.sucesso) => QuantidadeSequencial(df)
    /\ (op = "filter" /\ ~out.raised) => QuantidadeSequencial(out.frame)

\* C2: a Load that returns failure leaves the held table as it was before
\* the call.
C2_FalhaPreservaTabela ==
    [][(op' = "load" /\ ~out'.sucesso) => df' = df]_vars

\* A row satisfies a filter specification: for each field with a non-empty
\* value set, the row's value of the field is in the set
Satisfaz(t, filtros, row) ==
    \A i \in DOMAIN filtros :
        filtros[i].valor # {} =>
            \E j \in DOMAIN t.columns :
                t.columns[j] = filtros[i].coluna /\ row[j] \in filtros[i].valor

\* C3: Filter never raises, whatever the specification and the state of the
\* processor; with no table held or no row matching, it returns zero rows.
C3_FiltroNuncaFalha ==
    op = "filter" =>
        /\ ~out.raised
        /\ (df.none \/ \A i \in DOMAIN df.rows : ~Satisfaz(df, arg, df.rows[i]))
            => out.frame.rows = <<>>

\* C4: DistinctValues returns no value twice, no blank value, in ascending
\* order, and nothing when no table is held or the field is no column.
C4_ValoresUnicosLimpos ==
    op = "unique" =>
        /\ \A i, j \in DOMAIN out : i < j => out[i] # out[j]
        /\ \A i \in DOMAIN out :
            out[i] # <<>> /\ out[i][1] # " " /\ out[i][Len(out[i])] # " "
        /\ \A i, j \in DOMAIN out : i < j => ~StrLess(out[j], out[i])
        /\ (df.none \/ arg \notin Range(df.columns)) => out = <<>>

\* A row without the cell of its table's Quantidade column
SemQuantidade(t, row) ==
    LET keep == SelectSeq([j \in DOMAIN t.columns |-> j],
                          LAMBDA j : t.columns[j] # Txt(<<"Q", "u", "a", "n", "t", "i", "d", "a", "d", "e">>))
    IN  [j \in DOMAIN keep |-> row[keep[j]]]

\* C5: on a loaded table, Filter returns exactly the rows that, for each
\* field with a non-empty value set, have a value of the field in the set,
\* in their original order (all of them when every set is empty).
C5_FiltroConjuntivo ==
    (op = "filter" /\ carregado) =>
        /\ ~out.raised
        /\ out.frame.columns = df.columns
        /\ LET esperadas == SelectSeq(df.rows, LAMBDA r : Satisfaz(df, arg, r))
           IN  /\ Len(out.frame.rows) = Len(esperadas)
               /\ \A i \in DOMAIN esperadas :
                    SemQuantidade(out.frame, out.frame.rows[i])
                        = SemQuantidade(df, esperadas[i])

\* A conjunctive filter on two fields kept some rows of a loaded table and
\* dropped others
C5_Witness ==
    /\ op = "filter"
    /\ carregado
    /\ Cardinality({i \in DOMAIN arg : arg[i].valor # {}}) >= 2
    /\ out.frame.rows # <<>>
    /\ Len(out.frame.rows) < Len(df.rows)

\* C6: the table a successful Load builds has exactly the eight canonical
\* columns, in canonical order, whatever columns the source sheet has.
C6_ColunasCanonicas ==
    (op = "load" /\ out.sucesso) =>
        /\ df.columns = << Txt(<<"I", "t", "e", "m">>),
                           Txt(<<"C", "h", "a", "s", "s", "i">>),
                           Txt(<<"M", "o", "d", "e", "l", "o">>),
                           Txt(<<"C", "l", "i", "e", "n", "t", "e">>),
                           Txt(<<"C", "i", "d", "a", "d", "e">>),
                           Txt(<<"S", "t", "a", "t", "u", "s", " ", "F", "u", "n", "c", "i", "o", "n", "a", "m", "e", "n", "t", "o">>),
                           Txt(<<"M", "a", "n", "u", "t", "e", "n", "ç", "ã", "o">>),
                           Txt(<<"Q", "u", "a", "n", "t", "i", "d", "a", "d", "e">>) >>
        /\ \A i \in DOMAIN df.rows : Len(df.rows[i]) = 8

\* A successful Load of a sheet whose header row has a blank cell, an
\* extra column and misses some of the eight, with data rows kept
C6_Witness ==
    /\ op = "load"
    /\ out.sucesso
    /\ df.rows # <<>>
    /\ LET hdr == arg.rows[out.header_row + 1]
       IN  /\ \E j \in DOMAIN hdr : hdr[j].k = "nan"
           /\ \E j \in DOMAIN hdr : hdr[j] = Txt(<<"E", "x", "t", "r", "a">>)
           /\ hdr[1] = Txt(<<"C", "l", "i", "e", "n", "t", "e">>)
           /\ \A j \in DOMAIN hdr : hdr[j] # Txt(<<"C", "h", "a", "s", "s", "i">>)

\* C7: in the table a successful Load builds, every value of every field
\* but Quantidade is text with no leading or trailing whitespace.
C7_TextoAparado ==
    (op = "load" /\ out.sucesso) =>
        \A i \in DOMAIN df.rows : \A j \in 1..7 :
            /\ df.rows[i][j].k = "str"
            /\ df.rows[i][j].s # <<>> =>
                /\ df.rows[i][j].s[1] # " "
                /\ df.rows[i][j].s[Len(df.rows[i][j].s)] # " "

\* The distinct Cliente values of a table
ClientesDistintos(t) ==
    {t.rows[i][ColPos(t.columns, Txt(<<"C", "l", "i", "e", "n", "t", "e">>))] :
        i \in DOMAIN t.rows}

\* C8: RenderAll produces exactly one document per distinct Cliente value
\* of its input table, holding exactly that customer's rows in table order.
C8_UmDocumentoPorCliente ==
    op = "render" =>
        /\ ~out.raised
        /\ Cardinality(DOMAIN out.docs) = Cardinality(ClientesDistintos(arg))
        /\ \A c \in ClientesDistintos(arg) :
            \E f \in DOMAIN out.docs :
                LET j == ColPos(arg.columns, Txt(<<"C", "l", "i", "e", "n", "t", "e">>))
                    linhas == SelectSeq(arg.rows, LAMBDA r : r[j] = c)
                IN  /\ out.docs[f].titulo = str(c)
                    /\ out.docs[f].dados =
                        [i \in DOMAIN linhas |->
                            [h \in DOMAIN linhas[i] |-> str(linhas[i][h])]]

\* A cell that is the text "item", in any case, between any number of
\* blanks
CelulaItem(c) ==
    /\ c.k = "str"
    /\ \E a \in 0..Len(c.s) :
        /\ a + 4 <= Len(c.s)
        /\ \A i \in 1..a : c.s[i] = " "
        /\ c.s[a + 1] \in {"i", "I"}
        /\ c.s[a + 2] \in {"t", "T"}
        /\ c.s[a + 3] \in {"e", "E"}
        /\ c.s[a + 4] \in {"m", "M"}
        /\ \A i \in (a + 5)..Len(c.s) : c.s[i] = " "

LinhaComItem(row) == \E j \in DOMAIN row : CelulaItem(row[j])

\* C9: Load takes as header row the first row with a cell that is "item"
\* (trimmed, any case; containing it is not enough), and fails with the
\* header-not-found error when the sheet has no such row.
C9_PrimeiraLinhaComItem ==
    (op = "load" /\ arg.readable) =>
        IF \E i \in DOMAIN arg.rows : LinhaComItem(arg.rows[i])
        THEN /\ out.header_row # NoRow
             /\ LinhaComItem(arg.rows[out.header_row + 1])
             /\ \A i \in 1..out.header_row : ~LinhaComItem(arg.rows[i])
             /\ out.mensagem # ErroCabecalho
        ELSE /\ ~out.sucesso
             /\ out.mensagem = ErroCabecalho
             /\ out.header_row = NoRow

\* The header row lies below a row that only contains "item" in a longer
\* text and above a data row with a cell that is "item"
C9_Witness ==
    /\ op = "load"
    /\ arg.readable
    /\ out.header_row > 0
    /\ \E i \in 1..out.header_row :
        arg.rows[i][1] = Txt(<<"I", "t", "e", "m", "s">>)
    /\ \E i \in (out.header_row + 2)..Len(arg.rows) : LinhaComItem(arg.rows[i])

\* C10: Filter leaves the held table as it is, so a later Filter with no
\* restriction still returns every row of the held table.
C10_FiltroNaoAlteraTabela ==
    [][op' = "filter" =>
        /\ df' = df
        /\ (~df.none /\ \A i \in DOMAIN arg' : arg'[i].valor = {})
            => Len(out'.frame.rows) = Len(df.rows)]_vars

\* A Filter returned fewer rows than the loaded table, which still holds
\* them all
C10_Witness ==
    /\ op = "filter"
    /\ carregado
    /\ ~out.raised
    /\ Len(out.frame.rows) < Len(df.rows)
    /\ QuantidadeSequencial(df)

====
